---- MODULE Spec2Model ----
(***************************************************************************)
(* The AI Spotify Assistant server: the /command handler, the interpreter  *)
(* (getActionFromGemini, sanitizeInterpretation, heuristicInterpret) and   *)
(* the executor (executeSpotifyAction), as a state machine.                *)
(*                                                                         *)
(* The repository holds two copies of the server.  src/spotifyai/src/      *)
(* App.jsx (lines 99-495) has the Gemini SDK client, the sanitizer and the *)
(* heuristic fallback; src/unnamed/part_000 has the same handler and the   *)
(* same executor but a getActionFromGemini that posts to the REST endpoint *)
(* and returns JSON.parse of the reply as it is.  The variable `build`     *)
(* says which of the two is running.                                       *)
(*                                                                         *)
(* A JavaScript string is a sequence of one-character strings.  A          *)
(* JavaScript value is a record tagged by its typeof.                      *)
(***************************************************************************)
EXTENDS Integers, Sequences, FiniteSets, TLC

VARIABLES
    build,           \* which server file is running: "App.jsx" or "part_000"
    genAI,           \* App.jsx:125-135, TRUE when the Gemini client was created
    accessToken,     \* App.jsx:143, the process-wide bearer token
    pc,              \* per request: where the handler is suspended
    command,         \* per request: req.body.command
    interpretation,  \* per request: what getActionFromGemini returned
    headers,         \* per request: the token captured in `headers` (App.jsx:398)
    trace,           \* per request: the calls made so far, in order
    response,        \* per request: the responses sent, in order
    App,             \* the React component: its state and its running submit handlers
    arg,             \* the argument of a function applied on its own
    result           \* what the function returned for arg, one entry per application

vars ==
    <<build, genAI, accessToken, pc, command, interpretation, headers, trace, response,
      App, arg, result>>

(***************************************************************************)
(* String literals of the source, as character sequences.                  *)
(***************************************************************************)
s_play == <<"p", "l", "a", "y">>
s_pause == <<"p", "a", "u", "s", "e">>
s_next == <<"n", "e", "x", "t">>
s_previous == <<"p", "r", "e", "v", "i", "o", "u", "s">>
s_search_and_play == <<"s", "e", "a", "r", "c", "h", "_", "a", "n", "d", "_", "p", "l", "a", "y">>
s_play_artist_top_tracks == <<"p", "l", "a", "y", "_", "a", "r", "t", "i", "s", "t", "_", "t", "o", "p", "_", "t", "r", "a", "c", "k", "s">>
s_play_my_playlist == <<"p", "l", "a", "y", "_", "m", "y", "_", "p", "l", "a", "y", "l", "i", "s", "t">>
s_track == <<"t", "r", "a", "c", "k">>
s_artist == <<"a", "r", "t", "i", "s", "t">>
s_playlist == <<"p", "l", "a", "y", "l", "i", "s", "t">>
s_stop == <<"s", "t", "o", "p">>
s_skip == <<"s", "k", "i", "p">>
s_back == <<"b", "a", "c", "k">>
s_play_sp == <<"p", "l", "a", "y", " ">>
s_my_sp == <<"m", "y", " ">>
s_sp_playlist == <<" ", "p", "l", "a", "y", "l", "i", "s", "t">>
s_top_songs_by == <<"t", "o", "p", " ", "s", "o", "n", "g", "s", " ", "b", "y">>
s_top_tracks_by == <<"t", "o", "p", " ", "t", "r", "a", "c", "k", "s", " ", "b", "y">>
s_play_top_songs_of == <<"p", "l", "a", "y", " ", "t", "o", "p", " ", "s", "o", "n", "g", "s", " ", "o", "f">>
s_by_sp == <<"b", "y", " ">>
s_of_sp == <<"o", "f", " ">>
s_the_sp == <<"t", "h", "e", " ">>
s_sp_by_sp == <<" ", "b", "y", " ">>
\* the backquote character (a TLA+ string cannot hold one)
Backquote == "BACKQUOTE"
s_fence == <<Backquote, Backquote, Backquote>>
s_json == <<"j", "s", "o", "n">>
s_42 == <<"4", "2">>

(***************************************************************************)
(* String.prototype operations and the regular-expression primitives.      *)
(***************************************************************************)
UpperChars == <<"A", "B", "C", "D", "E", "F", "G", "H", "I", "J", "K", "L", "M",
                "N", "O", "P", "Q", "R", "S", "T", "U", "V", "W", "X", "Y", "Z">>
LowerChars == <<"a", "b", "c", "d", "e", "f", "g", "h", "i", "j", "k", "l", "m",
                "n", "o", "p", "q", "r", "s", "t", "u", "v", "w", "x", "y", "z">>

LowerChar(ch) ==
    IF \E i \in DOMAIN UpperChars : UpperChars[i] = ch
    THEN LowerChars[CHOOSE i \in DOMAIN UpperChars : UpperChars[i] = ch]
    ELSE ch

\* the text as it is, letter case kept
toLowerCaseOmitted(s) == s

\* String.prototype.toLowerCase
toLowerCase(s) == [i \in 1..Len(s) |-> LowerChar(s[i])]

\* the class \w
IsWordChar(ch) ==
    \/ \E i \in DOMAIN UpperChars : UpperChars[i] = ch \/ LowerChars[i] = ch
    \/ ch \in {"0", "1", "2", "3", "4", "5", "6", "7", "8", "9"}
    \/ ch = "_"

\* what the pattern . does not match
IsLineTerminator(ch) == ch \in {"\n", "\r"}

\* the class \s, which is also what trim() removes
IsSpace(ch) == ch \in {" ", "\t", "\n", "\r"}

\* w occurs in s at index i
StartsAt(s, i, w) ==
    /\ i >= 1
    /\ i + Len(w) - 1 <= Len(s)
    /\ \A k \in 1..Len(w) : s[i + k - 1] = w[k]

\* RegExp.test of a literal pattern
Contains(s, w) == \E i \in 1..(Len(s) + 1) : StartsAt(s, i, w)

\* String.prototype.includes
includes(s, w) == Contains(s, w)

\* index of the leftmost occurrence of w in s (0 when there is none)
IndexOf(s, w) ==
    IF Contains(s, w)
    THEN CHOOSE i \in 1..(Len(s) + 1) :
            StartsAt(s, i, w) /\ \A j \in 1..(i - 1) : ~StartsAt(s, j, w)
    ELSE 0

\* String.prototype.replace of the first occurrence of a literal pattern
ReplaceFirst(s, w, by) ==
    LET i == IndexOf(s, w)
    IN  IF i = 0 THEN s
        ELSE SubSeq(s, 1, i - 1) \o by \o SubSeq(s, i + Len(w), Len(s))

\* String.prototype.replace(/^w/, '')
StripPrefix(s, w) == IF StartsAt(s, 1, w) THEN SubSeq(s, Len(w) + 1, Len(s)) ELSE s

\* String.prototype.replace(/w$/, '')
StripSuffix(s, w) ==
    IF Len(w) <= Len(s) /\ StartsAt(s, Len(s) - Len(w) + 1, w)
    THEN SubSeq(s, 1, Len(s) - Len(w))
    ELSE s

\* String.prototype.trim
trim(s) ==
    LET keep == {i \in 1..Len(s) : ~IsSpace(s[i])}
    IN  IF keep = {} THEN <<>>
        ELSE LET lo == CHOOSE i \in keep : \A j \in keep : i <= j
                 hi == CHOOSE i \in keep : \A j \in keep : j <= i
             IN  SubSeq(s, lo, hi)

\* slice(1, n): the first character is dropped
sliceFromOne(s, n) == IF Len(s) <= n THEN SubSeq(s, 2, Len(s)) ELSE SubSeq(s, 2, n)

\* String.prototype.slice(0, n)
slice(s, n) == IF Len(s) <= n THEN s ELSE SubSeq(s, 1, n)

\* the least member of a non-empty set of integers
Least(S) == CHOOSE i \in S : \A j \in S : i <= j

(***************************************************************************)
(* JavaScript values.                                                      *)
(***************************************************************************)
Undefined == [t |-> "undefined"]
Null == [t |-> "null"]
Str(s) == [t |-> "string", v |-> s]
Num(n) == [t |-> "number", v |-> n]
Bool(b) == [t |-> "boolean", v |-> b]
\* an object is a function from its own property names to their values
Obj(f) == [t |-> "object", v |-> f]
EmptyObject == Obj(<<>>)

IsString(x) == x.t = "string"

\* x.k for a value that is neither null nor undefined
Get(x, k) ==
    IF x.t = "object" /\ k \in DOMAIN x.v THEN x.v[k] ELSE Undefined

\* ToBoolean
Truthy(x) ==
    CASE x.t = "undefined" -> FALSE
      [] x.t = "null" -> FALSE
      [] x.t = "string" -> x.v # <<>>
      [] x.t = "number" -> x.v # 0
      [] x.t = "boolean" -> x.v
      [] OTHER -> TRUE

\* a || b
OrElse(a, b) == IF Truthy(a) THEN a ELSE b

\* String(x), for the values the model's universe holds
ToStr(x) ==
    CASE x.t = "string" -> x.v
      [] x.t = "number" -> IF x.v = 42 THEN s_42 ELSE <<"0">>
      [] x.t = "boolean" -> IF x.v THEN <<"t", "r", "u", "e">> ELSE <<"f", "a", "l", "s", "e">>
      [] x.t = "undefined" -> <<"u", "n", "d", "e", "f", "i", "n", "e", "d">>
      [] x.t = "null" -> <<"n", "u", "l", "l">>
      [] OTHER -> <<"[", "o", "b", "j", "e", "c", "t", " ", "O", "b", "j", "e", "c", "t", "]">>

\* the result of a call that may throw
Return(x) == [ok |-> TRUE, val |-> x]
Throw(template, args) == [ok |-> FALSE, message |-> [template |-> template, args |-> args]]

\* {action, parameters}
Action(a, p) == Obj([action |-> Str(a), parameters |-> Obj(p)])

(***************************************************************************)
(* heuristicInterpret (App.jsx:359-386).                                   *)
(***************************************************************************)
\* the end, on the same line, of the text that starts at index j
LineEnd(c, j) ==
    LET stops == {k \in j..Len(c) : IsLineTerminator(c[k])}
    IN  IF stops = {} THEN Len(c) ELSE Least(stops) - 1

\* lengths k >= 1 of a capture (.+?) at j that " playlist" follows
PlaylistCaptures(c, j) ==
    {k \in 1..Len(c) : j + k - 1 <= LineEnd(c, j) /\ StartsAt(c, j + k, s_sp_playlist)}

\* \w+ playlist at index j
WordThenPlaylist(c, j) ==
    \E k \in 1..Len(c) :
        /\ j + k - 1 <= Len(c)
        /\ \A n \in j..(j + k - 1) : IsWordChar(c[n])
        /\ StartsAt(c, j + k, s_sp_playlist)

\* /play (my )?\w+ playlist/.test(c)
TestPlayPlaylist(c) ==
    \E i \in 1..Len(c) :
        /\ StartsAt(c, i, s_play_sp)
        /\ \/ WordThenPlaylist(c, i + Len(s_play_sp))
           \/ /\ StartsAt(c, i + Len(s_play_sp), s_my_sp)
              /\ WordThenPlaylist(c, i + Len(s_play_sp) + Len(s_my_sp))

\* c.match(/play (?:my )?(.+?) playlist/): <<m[1]>>, or <<>> for no match.
\* The leftmost start wins; there "my " is consumed when the rest then
\* matches; the capture is the shortest that " playlist" follows.
MatchPlayPlaylist(c) ==
    LET a(i) == i + Len(s_play_sp)
        b(i) == a(i) + Len(s_my_sp)
        withMy(i) == StartsAt(c, a(i), s_my_sp) /\ PlaylistCaptures(c, b(i)) # {}
        starts == {i \in 1..Len(c) :
                      /\ StartsAt(c, i, s_play_sp)
                      /\ (withMy(i) \/ PlaylistCaptures(c, a(i)) # {})}
    IN  IF starts = {} THEN <<>>
        ELSE LET i == Least(starts)
                 j == IF withMy(i) THEN b(i) ELSE a(i)
                 k == Least(PlaylistCaptures(c, j))
             IN  <<SubSeq(c, j, j + k - 1)>>

\* c.match(/(?:by|of) (.+)$/): <<m[1]>>, or <<>> for no match
MatchByOf(c) ==
    LET starts == {i \in 1..Len(c) :
                      /\ StartsAt(c, i, s_by_sp) \/ StartsAt(c, i, s_of_sp)
                      /\ i + 3 <= Len(c)
                      /\ LineEnd(c, i + 3) = Len(c)}
    IN  IF starts = {} THEN <<>>
        ELSE <<SubSeq(c, Least(starts) + 3, Len(c))>>

\* c.match(/play (.+)/): <<m[1]>>, or <<>> for no match
MatchPlay(c) ==
    LET a(i) == i + Len(s_play_sp)
        starts == {i \in 1..Len(c) :
                      /\ StartsAt(c, i, s_play_sp)
                      /\ a(i) <= LineEnd(c, a(i))}
    IN  IF starts = {} THEN <<>>
        ELSE LET i == Least(starts)
             IN  <<SubSeq(c, a(i), LineEnd(c, a(i)))>>

\* lines 372-383: the search_and_play rule, for the capture m1
SearchRule(m1) ==
    LET query == trim(StripPrefix(m1, s_the_sp))
        type == IF Contains(query, s_playlist) THEN s_playlist
                ELSE IF Contains(query, s_sp_by_sp) THEN s_track
                ELSE s_track
    IN  Action(s_search_and_play,
               [query |-> Str(ReplaceFirst(query, s_sp_playlist, <<>>)), type |-> Str(type)])

\* the rules on the lower-cased text c
HeuristicRules(c) ==
    LET m4 == MatchPlayPlaylist(c)
        m5 == MatchByOf(c)
        m6 == MatchPlay(c)
    IN  IF Contains(c, s_pause) \/ Contains(c, s_stop) THEN Action(s_pause, <<>>)
        ELSE IF Contains(c, s_next) \/ Contains(c, s_skip) THEN Action(s_next, <<>>)
        ELSE IF Contains(c, s_previous) \/ Contains(c, s_back) THEN Action(s_previous, <<>>)
        ELSE IF TestPlayPlaylist(c) /\ m4 # <<>>
             THEN Action(s_play_my_playlist, [playlistName |-> Str(trim(m4[1]))])
        ELSE IF /\ \/ Contains(c, s_top_songs_by)
                   \/ Contains(c, s_top_tracks_by)
                   \/ Contains(c, s_play_top_songs_of)
                /\ m5 # <<>>
             THEN Action(s_play_artist_top_tracks, [artistName |-> Str(trim(m5[1]))])
        ELSE IF Contains(c, s_play_sp) /\ m6 # <<>> THEN SearchRule(m6[1])
        ELSE Action(s_play, <<>>)

\* command.toLowerCase() throws when command is not a string
heuristicInterpret(cmd) ==
    IF IsString(cmd)
    THEN Return(HeuristicRules(toLowerCase(cmd.v)))
    ELSE Throw("command.toLowerCase is not a function", <<>>)

(***************************************************************************)
(* sanitizeInterpretation and pickType (App.jsx:335-356).                  *)
(***************************************************************************)
QueryCap == 120
NameCap == 80

AllowedActions ==
    {s_play, s_pause, s_next, s_previous, s_search_and_play,
     s_play_artist_top_tracks, s_play_my_playlist}

AllowedTypes == {s_track, s_artist, s_playlist}

\* Set.prototype.has and Array.prototype.includes compare without coercion
Has(S, x) == IsString(x) /\ x.v \in S

\* the type passed on as given
pickTypeUnchecked(t) == t

pickType(t) == IF Has(AllowedTypes, t) THEN t ELSE Str(s_track)

\* the sanitizer without the check of line 337
sanitizeWithoutWhitelist(obj) ==
    Action(ToStr(Get(obj, "action")), <<>>)

\* the sanitizer whose default keeps the parameters it was given
sanitizeDefaultKeepsParameters(obj) ==
    LET action == Get(obj, "action")
        p == OrElse(Get(obj, "parameters"), EmptyObject)
    IN  IF ~Has(AllowedActions, action)
        THEN Obj([action |-> Str(s_play), parameters |-> p])
        ELSE Action(action.v, <<>>)

sanitizeInterpretation(obj) ==
    LET action == Get(obj, "action")
        p == OrElse(Get(obj, "parameters"), EmptyObject)
        capped(x, n) == Str(slice(ToStr(OrElse(x, Str(<<>>))), n))
    IN  IF ~Has(AllowedActions, action) THEN Action(s_play, <<>>)
        ELSE CASE action.v = s_search_and_play ->
                    Action(action.v, [query |-> capped(Get(p, "query"), QueryCap),
                                      type |-> pickType(Get(p, "type"))])
               [] action.v = s_play_artist_top_tracks ->
                    Action(action.v,
                           [artistName |->
                               capped(OrElse(Get(p, "artistName"), Get(p, "artist")), NameCap)])
               [] action.v = s_play_my_playlist ->
                    Action(action.v,
                           [playlistName |->
                               capped(OrElse(Get(p, "playlistName"), Get(p, "name")), NameCap)])
               [] OTHER -> Action(action.v, <<>>)

(***************************************************************************)
(* The model's reply.  Its text is a sequence of characters in which a     *)
(* whole JSON document is one element, named in JsonDocs; every other      *)
(* element is a character that is no part of a JSON document.              *)
(***************************************************************************)
n_jazz == <<"j", "a", "z", "z">>
n_Queen == <<"Q", "u", "e", "e", "n">>
n_ROCK == <<"R", "O", "C", "K">>
s_shuffle == <<"s", "h", "u", "f", "f", "l", "e">>

JsonDocs ==
    ("{pause}" :> Action(s_pause, <<>>))
    @@ ("{next}" :> Action(s_next, <<>>))
    @@ ("{shuffle}" :> Action(s_shuffle, <<>>))
    @@ ("{search}" :> Action(s_search_and_play, [query |-> Str(n_jazz), type |-> Str(s_playlist)]))
    @@ ("{artist}" :> Action(s_play_artist_top_tracks, [artistName |-> Str(n_Queen)]))
    @@ ("{playlist}" :> Action(s_play_my_playlist, [playlistName |-> Str(n_ROCK)]))
    @@ ("{unnamed}" :> Action(s_play_my_playlist, <<>>))
    @@ ("{longsearch}" :>
            Action(s_search_and_play,
                   [query |-> Str([i \in 1..(QueryCap + 1) |-> "q"]), type |-> Str(s_track)]))
    @@ ("{noaction}" :> Obj([parameters |-> EmptyObject]))
    @@ ("null" :> Null)

\* the element starts with { / ends with }
OpensBrace(e) == e = "{" \/ (e \in DOMAIN JsonDocs /\ JsonDocs[e].t = "object")
ClosesBrace(e) == e = "}" \/ (e \in DOMAIN JsonDocs /\ JsonDocs[e].t = "object")

\* JSON.parse: white space around one document
JSONparse(str) ==
    LET x == trim(str)
    IN  IF Len(x) = 1 /\ x[1] \in DOMAIN JsonDocs
        THEN Return(JsonDocs[x[1]])
        ELSE Throw("Unexpected token in JSON", <<>>)

\* App.jsx:325-327
safeJson(str) == IF JSONparse(str).ok THEN JSONparse(str).val ELSE Null

\* App.jsx:329-333, text.match(/\{[\s\S]*\}$/m): from the first { to the
\* last } that ends a line
extractJsonFromText(text) ==
    LET opens == {i \in 1..Len(text) : OpensBrace(text[i])}
        closes(i) == {j \in i..Len(text) :
                         /\ ClosesBrace(text[j])
                         /\ (j = Len(text) \/ IsLineTerminator(text[j + 1]))
                         /\ (j > i \/ text[i] \in DOMAIN JsonDocs)}
        starts == {i \in opens : closes(i) # {}}
    IN  IF starts = {} THEN Null
        ELSE LET i == Least(starts)
                 j == CHOOSE j \in closes(i) : \A k \in closes(i) : k <= j
             IN  safeJson(SubSeq(text, i, j))

\* String.prototype.replace(/w/g, '')
RECURSIVE RemoveAll(_, _)
RemoveAll(s, w) ==
    LET i == IndexOf(s, w)
    IN  IF i = 0 THEN s
        ELSE SubSeq(s, 1, i - 1) \o RemoveAll(SubSeq(s, i + Len(w), Len(s)), w)

\* the text trimmed, its fences left in place
CleanedFencesKept(raw) == trim(raw)

\* App.jsx:302-307
Cleaned(raw) ==
    LET a == IF StartsAt(toLowerCase(raw), 1, s_fence \o s_json)
             THEN SubSeq(raw, Len(s_fence \o s_json) + 1, Len(raw))
             ELSE raw
    IN  trim(StripSuffix(StripPrefix(a, s_fence), s_fence))

EvHeuristic == [ev |-> "heuristicInterpret"]
EvSanitize == [ev |-> "sanitizeInterpretation"]

\* App.jsx:271-273, the path without a Gemini client
InterpretWithoutModel(userCommand) ==
    [res |-> heuristicInterpret(userCommand), events |-> <<EvHeuristic>>]

\* a failed model call made once more before the heuristic
InterpretAppRetrying(userCommand, reply) ==
    LET h == heuristicInterpret(userCommand)
        raw == trim(reply.val)
        parsed == safeJson(Cleaned(raw))
        extracted == extractJsonFromText(raw)
    IN  IF ~reply.ok
        THEN [res |-> h,
              events |-> <<[ev |-> "model", prompt |-> userCommand],
                           [ev |-> "reply", reply |-> reply], EvHeuristic>>]
        ELSE IF Truthy(parsed) /\ Truthy(Get(parsed, "action"))
             THEN [res |-> Return(sanitizeInterpretation(parsed)), events |-> <<EvSanitize>>]
        ELSE IF Truthy(extracted) /\ Truthy(Get(extracted, "action"))
             THEN [res |-> Return(sanitizeInterpretation(extracted)), events |-> <<EvSanitize>>]
        ELSE IF h.ok THEN [res |-> h, events |-> <<EvHeuristic>>]
        ELSE [res |-> h, events |-> <<EvHeuristic, EvHeuristic>>]

\* App.jsx:299-322, from the return of model.generateContent on.  A throw of
\* heuristicInterpret at line 313 lands in the catch, which calls it again.
InterpretApp(userCommand, reply) ==
    LET h == heuristicInterpret(userCommand)
        raw == trim(reply.val)
        parsed == safeJson(Cleaned(raw))
        extracted == extractJsonFromText(raw)
    IN  IF ~reply.ok THEN [res |-> h, events |-> <<EvHeuristic>>]
        ELSE IF Truthy(parsed) /\ Truthy(Get(parsed, "action"))
             THEN [res |-> Return(sanitizeInterpretation(parsed)), events |-> <<EvSanitize>>]
        ELSE IF Truthy(extracted) /\ Truthy(Get(extracted, "action"))
             THEN [res |-> Return(sanitizeInterpretation(extracted)), events |-> <<EvSanitize>>]
        ELSE IF h.ok THEN [res |-> h, events |-> <<EvHeuristic>>]
        ELSE [res |-> h, events |-> <<EvHeuristic, EvHeuristic>>]

\* part_000:205-215, from the return of axios.post on: nothing is caught
InterpretLegacy(userCommand, reply) ==
    IF ~reply.ok THEN [res |-> reply, events |-> <<>>]
    ELSE [res |-> JSONparse(trim(RemoveAll(RemoveAll(reply.val, s_fence \o s_json), s_fence))),
          events |-> <<>>]

(***************************************************************************)
(* executeSpotifyAction (App.jsx:394-488, part_000:224-318), cut at its    *)
(* awaits.  Each piece yields the calls it makes (events), where the       *)
(* handler is suspended next (pc) and what it threw (err).                 *)
(***************************************************************************)
Axios(method, url, data, token) ==
    [ev |-> "axios", method |-> method, url |-> url, data |-> data, token |-> token]
EvExecute(interp) == [ev |-> "executeSpotifyAction", interpretation |-> interp]
EvReply(reply) == [ev |-> "reply", reply |-> reply]

Goto(label, events) == [pc |-> label, events |-> events, err |-> <<>>]
Raise(thrown, events) == [pc |-> "done", events |-> events, err |-> <<thrown.message>>]

IsNullish(x) == x.t \in {"undefined", "null"}

PlayUrl == "/me/player/play"
TopTracksUrl == "/artists/${artistId}/top-tracks"

\* the switch whose case 'pause' has no return and falls through to 'next'
executeSpotifyActionPauseFallsThrough(interp, token) ==
    LET action == Get(interp, "action")
        parameters == Get(interp, "parameters")
        enter == <<EvExecute(interp)>>
        call(method, url, data) == Goto(url, enter \o <<Axios(method, url, data, token)>>)
    IN  IF IsNullish(interp)
        THEN Raise(Throw("Cannot destructure property 'action'", <<interp>>), enter)
        ELSE IF action = Str(s_play) THEN call("PUT", PlayUrl, <<>>)
        ELSE IF action = Str(s_pause)
             THEN LET x == call("PUT", "/me/player/pause", <<>>)
                  IN  [x EXCEPT !.pc = "/me/player/next",
                                !.events = @ \o <<Axios("POST", "/me/player/next", <<>>, token)>>]
        ELSE IF action = Str(s_next) THEN call("POST", "/me/player/next", <<>>)
        ELSE IF action = Str(s_previous) THEN call("POST", "/me/player/previous", <<>>)
        ELSE IF action = Str(s_search_and_play)
             THEN IF IsNullish(parameters)
                  THEN Raise(Throw("Cannot destructure property 'query'", <<parameters>>), enter)
                  ELSE call("GET", "/search",
                            [q |-> Get(parameters, "query"), type |-> Get(parameters, "type"),
                             limit |-> 1])
        ELSE IF action = Str(s_play_artist_top_tracks)
             THEN IF IsNullish(parameters)
                  THEN Raise(Throw("Cannot destructure property 'artistName'", <<parameters>>),
                             enter)
                  ELSE call("GET", "/search",
                            [q |-> Get(parameters, "artistName"), type |-> Str(s_artist),
                             limit |-> 1])
        ELSE IF action = Str(s_play_my_playlist)
             THEN IF IsNullish(parameters)
                  THEN Raise(Throw("Cannot destructure property 'playlistName'", <<parameters>>),
                             enter)
                  ELSE call("GET", "/me/playlists", [limit |-> 50])
        ELSE Raise(Throw("Unknown action: ${action}", <<action>>), enter)

\* lines 394-483 up to the first await (for the four simple actions: the
\* returned promise, which the handler awaits)
executeSpotifyAction(interp, token) ==
    LET action == Get(interp, "action")
        parameters == Get(interp, "parameters")
        enter == <<EvExecute(interp)>>
        call(method, url, data) == Goto(url, enter \o <<Axios(method, url, data, token)>>)
    IN  IF IsNullish(interp)
        THEN Raise(Throw("Cannot destructure property 'action'", <<interp>>), enter)
        ELSE IF action = Str(s_play) THEN call("PUT", PlayUrl, <<>>)
        ELSE IF action = Str(s_pause) THEN call("PUT", "/me/player/pause", <<>>)
        ELSE IF action = Str(s_next) THEN call("POST", "/me/player/next", <<>>)
        ELSE IF action = Str(s_previous) THEN call("POST", "/me/player/previous", <<>>)
        ELSE IF action = Str(s_search_and_play)
             THEN IF IsNullish(parameters)
                  THEN Raise(Throw("Cannot destructure property 'query'", <<parameters>>), enter)
                  ELSE call("GET", "/search",
                            [q |-> Get(parameters, "query"), type |-> Get(parameters, "type"),
                             limit |-> 1])
        ELSE IF action = Str(s_play_artist_top_tracks)
             THEN IF IsNullish(parameters)
                  THEN Raise(Throw("Cannot destructure property 'artistName'", <<parameters>>),
                             enter)
                  ELSE call("GET", "/search",
                            [q |-> Get(parameters, "artistName"), type |-> Str(s_artist),
                             limit |-> 1])
        ELSE IF action = Str(s_play_my_playlist)
             THEN IF IsNullish(parameters)
                  THEN Raise(Throw("Cannot destructure property 'playlistName'", <<parameters>>),
                             enter)
                  ELSE call("GET", "/me/playlists", [limit |-> 50])
        ELSE Raise(Throw("Unknown action: ${action}", <<action>>), enter)

\* the item types the search endpoint answers for (these among others): the
\* reply has the key `${type}s` for them only
SearchTypes == AllowedTypes \cup {<<"a", "l", "b", "u", "m">>}

\* search_and_play without the check of line 419: items[0].uri throws
AfterItemSearchUnchecked(interp, token, reply) ==
    LET type == Get(Get(interp, "parameters"), "type")
        got == <<EvReply(reply)>>
    IN  IF ~reply.ok THEN Raise(reply, got)
        ELSE IF Len(reply.val) = 0
             THEN Raise(Throw("Cannot read properties of undefined (reading 'uri')", <<>>), got)
        ELSE Goto(PlayUrl,
                  got \o <<Axios("PUT", PlayUrl,
                                 IF type = Str(s_track)
                                 THEN [uris |-> <<reply.val[1].uri>>]
                                 ELSE [context_uri |-> reply.val[1].uri],
                                 token)>>)

\* lines 418-431: search_and_play, after the search returned
AfterItemSearch(interp, token, reply) ==
    LET parameters == Get(interp, "parameters")
        type == Get(parameters, "type")
        query == Get(parameters, "query")
        items == reply.val
        got == <<EvReply(reply)>>
    IN  IF ~reply.ok THEN Raise(reply, got)
        ELSE IF ~Has(SearchTypes, type)
             THEN Raise(Throw("Cannot read properties of undefined (reading 'items')", <<>>), got)
        ELSE IF Len(items) = 0
             THEN Raise(Throw("No ${type} found for query: ${query}", <<type, query>>), got)
        ELSE Goto(PlayUrl,
                  got \o <<Axios("PUT", PlayUrl,
                                 IF type = Str(s_track)
                                 THEN [uris |-> <<items[1].uri>>]
                                 ELSE [context_uri |-> items[1].uri],
                                 token)>>)

\* the artist search whose failure is not raised: the fetch is issued anyway
AfterArtistSearchFailureIgnored(interp, token, reply) ==
    LET artistName == Get(Get(interp, "parameters"), "artistName")
        got == <<EvReply(reply)>>
    IN  IF reply.ok /\ Len(reply.val) = 0
        THEN Raise(Throw("Artist not found: ${artistName}", <<artistName>>), got)
        ELSE Goto(TopTracksUrl,
                  got \o <<Axios("GET", TopTracksUrl,
                                 [artistId |-> IF reply.ok THEN reply.val[1].id ELSE "undefined",
                                  market |-> "US"], token)>>)

\* lines 442-451: play_artist_top_tracks, after the artist search returned
AfterArtistSearch(interp, token, reply) ==
    LET artistName == Get(Get(interp, "parameters"), "artistName")
        items == reply.val
        got == <<EvReply(reply)>>
    IN  IF ~reply.ok THEN Raise(reply, got)
        ELSE IF Len(items) = 0
             THEN Raise(Throw("Artist not found: ${artistName}", <<artistName>>), got)
        ELSE Goto(TopTracksUrl,
                  got \o <<Axios("GET", TopTracksUrl,
                                 [artistId |-> items[1].id, market |-> "US"], token)>>)

\* the top tracks, of which only the first is played
AfterTopTracksFirstOnly(interp, token, reply) ==
    LET artistName == Get(Get(interp, "parameters"), "artistName")
        got == <<EvReply(reply)>>
    IN  IF ~reply.ok THEN Raise(reply, got)
        ELSE IF Len(reply.val) = 0
             THEN Raise(Throw("No top tracks found for ${artistName}", <<artistName>>), got)
        ELSE Goto(PlayUrl, got \o <<Axios("PUT", PlayUrl, [uris |-> <<reply.val[1].uri>>], token)>>)

\* lines 453-459: after the top tracks returned
AfterTopTracks(interp, token, reply) ==
    LET artistName == Get(Get(interp, "parameters"), "artistName")
        trackUris == [i \in 1..Len(reply.val) |-> reply.val[i].uri]
        got == <<EvReply(reply)>>
    IN  IF ~reply.ok THEN Raise(reply, got)
        ELSE IF Len(trackUris) = 0
             THEN Raise(Throw("No top tracks found for ${artistName}", <<artistName>>), got)
        ELSE Goto(PlayUrl, got \o <<Axios("PUT", PlayUrl, [uris |-> trackUris], token)>>)

\* the last match instead of the first
FindLastPlaylist(playlists, playlistName) ==
    LET hits == {i \in 1..Len(playlists) :
                    includes(toLowerCase(playlists[i].name), toLowerCase(playlistName))}
    IN  IF hits = {} THEN 0 ELSE CHOOSE i \in hits : \A j \in hits : j <= i

\* line 473: playlists.find(p => p.name.toLowerCase().includes(playlistName.toLowerCase())),
\* as the index found (0 for undefined)
\* a search in which an empty name matches no playlist
FindNamedPlaylist(playlists, playlistName) ==
    LET hits == {i \in 1..Len(playlists) :
                    /\ playlistName # <<>>
                    /\ includes(toLowerCase(playlists[i].name), toLowerCase(playlistName))}
    IN  IF hits = {} THEN 0 ELSE Least(hits)

FindPlaylist(playlists, playlistName) ==
    LET hits == {i \in 1..Len(playlists) :
                    includes(toLowerCase(playlists[i].name), toLowerCase(playlistName))}
    IN  IF hits = {} THEN 0 ELSE Least(hits)

\* lines 470-482: after the playlist listing returned
AfterPlaylists(interp, token, reply) ==
    LET playlistName == Get(Get(interp, "parameters"), "playlistName")
        playlists == reply.val
        got == <<EvReply(reply)>>
    IN  IF ~reply.ok THEN Raise(reply, got)
        ELSE IF Len(playlists) > 0 /\ ~IsString(playlistName)
             THEN Raise(Throw("playlistName.toLowerCase is not a function", <<>>), got)
        ELSE IF Len(playlists) = 0 \/ FindPlaylist(playlists, playlistName.v) = 0
             THEN Raise(Throw("Playlist '${playlistName}' not found in your library.",
                              <<playlistName>>), got)
        ELSE Goto(PlayUrl,
                  got \o <<Axios("PUT", PlayUrl,
                                 [context_uri |->
                                     playlists[FindPlaylist(playlists, playlistName.v)].uri],
                                 token)>>)

\* the last call, not awaited: its failure is lost
AfterPlaybackUnawaited(reply) == Goto("done", <<EvReply(reply)>>)

\* lines 250-253: the promise of the last call settles
AfterPlayback(reply) ==
    IF reply.ok THEN Goto("done", <<EvReply(reply)>>) ELSE Raise(reply, <<EvReply(reply)>>)

(***************************************************************************)
(* The inputs: commands, tokens, and what the model and the Spotify API    *)
(* answer.                                                                 *)
(***************************************************************************)
MaxTracks == 2
MaxPlaylists == 2

cmd_pause == <<"P", "a", "u", "s", "e", " ", "t", "h", "e", " ", "c", "u", "r", "r", "e", "n", "t", " ", "s", "o", "n", "g">>
cmd_skip == <<"s", "k", "i", "p", " ", "t", "h", "i", "s">>
cmd_playlist == <<"p", "l", "a", "y", " ", "m", "y", " ", "R", "o", "c", "k", " ", "p", "l", "a", "y", "l", "i", "s", "t">>
cmd_artist == <<"p", "l", "a", "y", " ", "t", "o", "p", " ", "s", "o", "n", "g", "s", " ", "b", "y", " ", "Q", "u", "e", "e", "n">>
cmd_search == <<"p", "l", "a", "y", " ", "t", "h", "e", " ", "J", "a", "z", "z">>
cmd_other == <<"s", "h", "u", "f", "f", "l", "e">>

\* req.body.command: missing, falsy, a truthy non-string, and texts
FalsyCommands == {Undefined, Null, Str(<<>>), Num(0)}
TextCommands ==
    {Str(cmd_pause), Str(cmd_skip), Str(cmd_playlist), Str(cmd_artist), Str(cmd_search),
     Str(cmd_other)}
Commands == FalsyCommands \cup {Num(42)} \cup TextCommands

NoToken == Str(<<>>)
Tokens == {Str(<<"A">>), Str(<<"B">>)}

NetworkError == Throw("Network Error", <<>>)
QuotaError == Throw("429 RESOURCE_EXHAUSTED: quota exceeded", <<>>)
StatusError == Throw("Request failed with status code 403", <<>>)

NL == "\n"

\* a document between a leading fence with its tag and a trailing fence,
\* white space around the fences and around the document
Fenced(f) == f.lead \o s_fence \o f.tag \o f.gap \o <<f.doc>> \o f.gap \o s_fence \o f.trail
FencedDocs ==
    {[lead |-> <<>>, tag |-> s_json, gap |-> <<NL>>, doc |-> "{next}", trail |-> <<>>],
     [lead |-> <<" ">>, tag |-> s_json, gap |-> <<" ">>, doc |-> "{shuffle}", trail |-> <<NL>>],
     [lead |-> <<NL>>, tag |-> <<"J", "S", "O", "N">>, gap |-> <<NL>>, doc |-> "{playlist}", trail |-> <<" ", NL>>]}

ModelTexts ==
    {Fenced(f) : f \in FencedDocs} \cup
    {<<"{pause}">>,
     <<"{shuffle}">>,
     <<"{search}">>,
     <<"{artist}">>,
     <<"{playlist}">>,
     <<"{unnamed}">>,
     <<"O", "K", ":", " ", "{next}">>,
     <<"{noaction}">>,
     <<"null">>,
     <<"s", "o", "r", "r", "y">>}
ModelReplies == {NetworkError, QuotaError} \cup {Return(x) : x \in ModelTexts}

SeqsUpTo(S, n) == UNION {[1..k -> S] : k \in 0..n}

Item == [uri |-> "spotify:item:1", id |-> "1"]
SearchReplies == {NetworkError, StatusError, Return(<<>>), Return(<<Item>>)}

TopTracksReplies ==
    {NetworkError, StatusError} \cup {Return(x) : x \in SeqsUpTo({[uri |-> "spotify:track:a"], [uri |-> "spotify:track:b"]}, MaxTracks)}

Library ==
    {[name |-> <<"S", "o", "f", "t", " ", "R", "o", "c", "k">>, uri |-> "spotify:playlist:1"],
     [name |-> n_ROCK, uri |-> "spotify:playlist:2"],
     [name |-> <<"J", "a", "z", "z">>, uri |-> "spotify:playlist:3"]}
PlaylistsReplies ==
    {NetworkError, StatusError} \cup {Return(x) : x \in SeqsUpTo(Library, MaxPlaylists)}

PlaybackReplies == {NetworkError, StatusError, Return(<<>>)}

\* the App component as mounted (App.jsx:7-9), no submit handler running
Mounted ==
    [command |-> <<>>, message |-> <<"Login to get started.">>, isLoading |-> FALSE,
     handlers |-> <<>>]

(***************************************************************************)
(* The /command handler (App.jsx:234-259, part_000:121-146).               *)
(***************************************************************************)
Status(code, body) == [status |-> code, body |-> body]
Respond400 == Status(400, [error |-> "Command is required."])
Respond401 == Status(401, [error |-> "Not authenticated. Please visit /login first."])
Respond200 == Status(200, [success |-> TRUE, message |-> "Command executed successfully."])
Respond500(error) ==
    Status(500, [success |-> FALSE, error |-> "Failed to process command.", details |-> error])

PlayerUrls == {PlayUrl, "/me/player/pause", "/me/player/next", "/me/player/previous"}

\* the handler running on without ever sending a response
ContinueWithoutResponse(r, x) ==
    /\ trace' = [trace EXCEPT ![r] = @ \o x.events]
    /\ pc' = [pc EXCEPT ![r] = x.pc]
    /\ response' = response

\* the handler runs on from executeSpotifyAction's outcome x: suspended at
\* the next call, or responding (200 at line 253, 500 at line 257)
Continue(r, x) ==
    /\ trace' = [trace EXCEPT ![r] = @ \o x.events]
    /\ pc' = [pc EXCEPT ![r] = x.pc]
    /\ response' = [response EXCEPT ![r] =
                       IF x.err # <<>> THEN <<Respond500(x.err[1])>>
                       ELSE IF x.pc = "done" THEN <<Respond200>>
                       ELSE @]

\* the interpretation kept in one variable that all requests share
InterpretedIntoSharedVariable(r, o) ==
    /\ interpretation' = [q \in DOMAIN interpretation |-> IF o.res.ok THEN o.res.val ELSE Undefined]
    /\ headers' = [headers EXCEPT ![r] = IF o.res.ok THEN accessToken ELSE @]
    /\ IF o.res.ok
       THEN LET x == executeSpotifyAction(o.res.val, accessToken)
            IN  Continue(r, [x EXCEPT !.events = o.events \o @])
       ELSE Continue(r, Raise(o.res, o.events))

\* lines 246-250: getActionFromGemini returned or threw (o), then
\* executeSpotifyAction starts and reads accessToken
Interpreted(r, o) ==
    /\ interpretation' = [interpretation EXCEPT ![r] = IF o.res.ok THEN o.res.val ELSE @]
    /\ headers' = [headers EXCEPT ![r] = IF o.res.ok THEN accessToken ELSE @]
    /\ IF o.res.ok
       THEN LET x == executeSpotifyAction(o.res.val, accessToken)
            IN  Continue(r, [x EXCEPT !.events = o.events \o @])
       ELSE Continue(r, Raise(o.res, o.events))

EvModel(userCommand) == [ev |-> "model", prompt |-> userCommand]

\* the guards in the other order
GuardsTokenFirst(cmd, token) ==
    IF ~Truthy(token) THEN <<Respond401>>
    ELSE IF ~Truthy(cmd) THEN <<Respond400>>
    ELSE <<>>

\* the guards without the credential check
GuardsCommandOnly(cmd, token) ==
    IF ~Truthy(cmd) THEN <<Respond400>> ELSE <<>>

\* the handler without its guards
GuardsOmitted(cmd, token) == <<>>

\* lines 237-242: the response of a guard that stops the request, if any
Guards(cmd, token) ==
    IF ~Truthy(cmd) THEN <<Respond400>>
    ELSE IF ~Truthy(token) THEN <<Respond401>>
    ELSE <<>>

\* a request arrives: the guards, then getActionFromGemini up to its await
\* (without a Gemini client nothing is awaited before executeSpotifyAction)
Command(r, cmd) ==
    /\ pc[r] \in {"idle", "done"}
    /\ command' = [command EXCEPT ![r] = cmd]
    /\ UNCHANGED <<App, arg, result, build, genAI, accessToken>>
    /\ IF Guards(cmd, accessToken) # <<>>
       THEN /\ response' = [response EXCEPT ![r] = Guards(cmd, accessToken)]
            /\ pc' = [pc EXCEPT ![r] = "done"]
            /\ trace' = [trace EXCEPT ![r] = <<>>]
            /\ interpretation' = [interpretation EXCEPT ![r] = Undefined]
            /\ headers' = [headers EXCEPT ![r] = Undefined]
       ELSE IF build = "App.jsx" /\ ~genAI
       THEN LET o == InterpretWithoutModel(cmd)
                x == IF o.res.ok
                     THEN executeSpotifyAction(o.res.val, accessToken)
                     ELSE Raise(o.res, <<>>)
            IN  /\ interpretation' = [interpretation EXCEPT ![r] =
                                         IF o.res.ok THEN o.res.val ELSE Undefined]
                /\ headers' = [headers EXCEPT ![r] =
                                  IF o.res.ok THEN accessToken ELSE Undefined]
                /\ trace' = [trace EXCEPT ![r] = o.events \o x.events]
                /\ pc' = [pc EXCEPT ![r] = x.pc]
                /\ response' = [response EXCEPT ![r] =
                                   IF x.err # <<>> THEN <<Respond500(x.err[1])>> ELSE <<>>]
       ELSE /\ trace' = [trace EXCEPT ![r] = <<EvModel(cmd)>>]
            /\ pc' = [pc EXCEPT ![r] = "model"]
            /\ response' = [response EXCEPT ![r] = <<>>]
            /\ interpretation' = [interpretation EXCEPT ![r] = Undefined]
            /\ headers' = [headers EXCEPT ![r] = Undefined]

\* model.generateContent (App.jsx:301) or axios.post (part_000:205) settles
ModelReturns(r, reply) ==
    /\ pc[r] = "model"
    /\ \E o \in {IF build = "App.jsx"
                 THEN InterpretApp(command[r], reply)
                 ELSE InterpretLegacy(command[r], reply)} :
          Interpreted(r, [o EXCEPT !.events = <<EvReply(reply)>> \o @])
    /\ UNCHANGED <<App, arg, result, build, genAI, accessToken, command>>

\* the step after the search reading accessToken again
SearchReturnsRereadingToken(r, reply) ==
    /\ pc[r] = "/search"
    /\ Continue(r, IF Get(interpretation[r], "action") = Str(s_search_and_play)
                   THEN AfterItemSearch(interpretation[r], accessToken, reply)
                   ELSE AfterArtistSearch(interpretation[r], accessToken, reply))
    /\ UNCHANGED <<App, arg, result, build, genAI, accessToken, command, interpretation, headers>>

SearchReturns(r, reply) ==
    /\ pc[r] = "/search"
    /\ Continue(r, IF Get(interpretation[r], "action") = Str(s_search_and_play)
                   THEN AfterItemSearch(interpretation[r], headers[r], reply)
                   ELSE AfterArtistSearch(interpretation[r], headers[r], reply))
    /\ UNCHANGED <<App, arg, result, build, genAI, accessToken, command, interpretation, headers>>

TopTracksReturns(r, reply) ==
    /\ pc[r] = TopTracksUrl
    /\ Continue(r, AfterTopTracks(interpretation[r], headers[r], reply))
    /\ UNCHANGED <<App, arg, result, build, genAI, accessToken, command, interpretation, headers>>

PlaylistsReturns(r, reply) ==
    /\ pc[r] = "/me/playlists"
    /\ Continue(r, AfterPlaylists(interpretation[r], headers[r], reply))
    /\ UNCHANGED <<App, arg, result, build, genAI, accessToken, command, interpretation, headers>>

PlaybackReturns(r, reply) ==
    /\ pc[r] \in PlayerUrls
    /\ Continue(r, AfterPlayback(reply))
    /\ UNCHANGED <<App, arg, result, build, genAI, accessToken, command, interpretation, headers>>

\* the /callback handler (App.jsx:195-226) after the token exchange
\* succeeded: line 213
Callback(token) ==
    /\ accessToken' = token
    /\ UNCHANGED <<App, arg, result, build, genAI, pc, command, interpretation, headers, trace, response>>

Requests == {1}

Init ==
    /\ App = Mounted
    /\ build \in {"App.jsx", "part_000"}
    /\ genAI \in (IF build = "App.jsx" THEN BOOLEAN ELSE {FALSE})
    /\ accessToken = NoToken
    /\ pc = [r \in Requests |-> "idle"]
    /\ command = [r \in Requests |-> Undefined]
    /\ interpretation = [r \in Requests |-> Undefined]
    /\ headers = [r \in Requests |-> Undefined]
    /\ trace = [r \in Requests |-> <<>>]
    /\ response = [r \in Requests |-> <<>>]
    /\ arg = Undefined
    /\ result = <<>>

Next ==
    \/ \E token \in Tokens : Callback(token)
    \/ \E r \in DOMAIN pc : \E cmd \in Commands : Command(r, cmd)
    \/ \E r \in DOMAIN pc : \E reply \in ModelReplies : ModelReturns(r, reply)
    \/ \E r \in DOMAIN pc : \E reply \in SearchReplies : SearchReturns(r, reply)
    \/ \E r \in DOMAIN pc : \E reply \in TopTracksReplies : TopTracksReturns(r, reply)
    \/ \E r \in DOMAIN pc : \E reply \in PlaylistsReplies : PlaylistsReturns(r, reply)
    \/ \E r \in DOMAIN pc : \E reply \in PlaybackReplies : PlaybackReturns(r, reply)

Spec == Init /\ [][Next]_vars

(***************************************************************************)
(* sanitizeInterpretation applied on its own, once and then to its own     *)
(* result, for objects of every shape.                                     *)
(***************************************************************************)
\* the server's variables, which a function applied on its own leaves alone
server == <<build, genAI, accessToken, pc, command, interpretation, headers, trace, response>>

\* the server as it starts, no request served
ServerStarts ==
    /\ build = "App.jsx"
    /\ genAI = FALSE
    /\ accessToken = NoToken
    /\ pc = [r \in Requests |-> "idle"]
    /\ command = [r \in Requests |-> Undefined]
    /\ interpretation = [r \in Requests |-> Undefined]
    /\ headers = [r \in Requests |-> Undefined]
    /\ trace = [r \in Requests |-> <<>>]
    /\ response = [r \in Requests |-> <<>>]

LongQuery == [i \in 1..(QueryCap + 1) |-> "q"]
LongName == [i \in 1..(NameCap + 1) |-> "n"]

\* obj.action: allowed, not allowed, not a string
ActionValues ==
    {Str(a) : a \in AllowedActions}
        \cup {Str(s_shuffle), Str(<<"P", "L", "A", "Y">>), Str(<<>>), Null, Num(42), EmptyObject}

\* obj.parameters: falsy, not an object, and objects with the schema's keys,
\* the alias keys, other keys, over-long strings and values of other types
ParameterValues ==
    {Null, Undefined, Num(0), Num(42), Str(n_jazz), EmptyObject,
     Obj([query |-> Str(LongQuery), type |-> Str(s_playlist)]),
     Obj([query |-> Num(42), type |-> Str(<<"a", "l", "b", "u", "m">>)]),
     Obj([query |-> Str(n_jazz)]),
     Obj([query |-> EmptyObject, type |-> Num(42)]),
     Obj([query |-> Str(n_jazz), type |-> Str(s_artist), extra |-> Str(n_Queen)]),
     Obj([artist |-> Str(n_Queen)]),
     Obj([artistName |-> Str(LongName)]),
     Obj([artistName |-> Str(<<>>), artist |-> Str(n_Queen)]),
     Obj([name |-> Str(LongName)]),
     Obj([playlistName |-> Str(n_ROCK), name |-> Str(n_jazz)]),
     Obj([playlistName |-> Bool(TRUE)])}

SanitizerInputs ==
    {Obj([action |-> a, parameters |-> p]) : a \in ActionValues, p \in ParameterValues}
        \cup {Obj([action |-> a]) : a \in ActionValues}
        \cup {Obj([parameters |-> p]) : p \in ParameterValues}
        \cup {EmptyObject}

\* sanitizeInterpretation(obj)
Sanitize ==
    /\ result = <<>>
    /\ result' = <<sanitizeInterpretation(arg)>>
    /\ UNCHANGED <<App, arg, server>>

\* sanitizeInterpretation(sanitizeInterpretation(obj))
SanitizeAgain ==
    /\ Len(result) = 1
    /\ result' = result \o <<sanitizeInterpretation(result[1])>>
    /\ UNCHANGED <<App, arg, server>>

InitSanitizer == ServerStarts /\ App = Mounted /\ arg \in SanitizerInputs /\ result = <<>>

NextSanitizer == Sanitize \/ SanitizeAgain

SpecSanitizer == InitSanitizer /\ [][NextSanitizer]_vars

(***************************************************************************)
(* heuristicInterpret applied on its own to command texts.                 *)
(***************************************************************************)
\* "pause" and "stop" in several letter cases
PauseWords ==
    {<<"p", "a", "u", "s", "e">>,
     <<"P", "A", "U", "S", "E">>,
     <<"P", "a", "u", "s", "e">>,
     <<"p", "A", "u", "S", "e">>,
     <<"s", "t", "o", "p">>,
     <<"S", "T", "O", "P">>,
     <<"S", "t", "o", "p">>}

\* what stands before and after the word
TextsBefore ==
    {<<>>,
     <<"p", "l", "a", "y", " ", "m", "y", " ", "n", "o", "n">>,
     <<"s", "k", "i", "p", " ", "a", "n", "d", " ">>,
     <<"p", "l", "a", "y", " ", "t", "o", "p", " ", "s", "o", "n", "g", "s", " ", "b", "y", " ">>}
TextsAfter ==
    {<<>>,
     <<" ", "t", "h", "e", " ", "n", "e", "x", "t", " ", "s", "o", "n", "g">>,
     <<" ", "p", "l", "a", "y", "l", "i", "s", "t">>,
     <<"p", "e", "d">>}

\* the X of "play my X playlist": one word, several words, words that hold
\* stop, back, next or skip, a word with a hyphen, and a name in spaces
PlaylistNames ==
    {<<"r", "o", "c", "k">>,
     <<"w", "o", "r", "k", "o", "u", "t">>,
     <<"s", "o", "f", "t", " ", "r", "o", "c", "k">>,
     <<"n", "o", "n", "s", "t", "o", "p">>,
     <<"b", "a", "c", "k", "y", "a", "r", "d">>,
     <<"n", "e", "x", "t", " ", "l", "e", "v", "e", "l">>,
     <<"s", "k", "i", "p", "p", "i", "n", "g">>,
     <<"l", "o", "-", "f", "i">>,
     <<" ", "c", "h", "i", "l", "l", " ">>,
     <<"9", "0", "s", " ", "h", "i", "t", "s">>}

\* texts with and without "play ", at the start and later
OtherTexts ==
    {<<"p", "l", "a", "y", " ", "j", "a", "z", "z">>,
     <<"p", "l", "e", "a", "s", "e", " ", "p", "l", "a", "y", " ", "j", "a", "z", "z">>,
     <<"d", "i", "s", "p", "l", "a", "y", " ", "j", "a", "z", "z">>,
     <<"h", "e", "l", "l", "o">>,
     <<"p", "l", "a", "y">>,
     <<"p", "l", "a", "y", " ">>,
     <<"P", "l", "a", "y", " ", "t", "h", "e", " ", "J", "a", "z", "z">>,
     <<"c", "a", "n", " ", "y", "o", "u", " ", "p", "l", "a", "y", " ", "s", "o", "m", "e", " ", "b", "l", "u", "e", "s">>,
     <<"p", "l", "a", "y", " ", "j", "a", "z", "z", " ", "p", "l", "a", "y", "l", "i", "s", "t">>,
     <<"p", "l", "a", "y", " ", "t", "h", "e", " ", "s", "o", "n", "g", " ", "b", "y", " ", "q", "u", "e", "e", "n">>,
     <<"p", "l", "a", "y", " ", "t", "o", "p", " ", "s", "o", "n", "g", "s", " ", "b", "y", " ", "Q", "u", "e", "e", "n">>,
     <<"p", "l", "a", "y", " ", "t", "o", "p", " ", "s", "o", "n", "g", "s", " ", "o", "f">>,
     <<"t", "o", "p", " ", "t", "r", "a", "c", "k", "s", " ", "b", "y", " ", "a", "b", "b", "a">>,
     <<"p", "l", "a", "y", "\n", "m", "y", " ", "r", "o", "c", "k", " ", "p", "l", "a", "y", "l", "i", "s", "t">>,
     <<"s", "h", "u", "f", "f", "l", "e">>}

\* a pause word between two texts, "play my X playlist", and the others
HeuristicInputs ==
    {Str(a \o w \o b) : a \in TextsBefore, w \in PauseWords, b \in TextsAfter}
        \cup {Str(s_play_sp \o s_my_sp \o x \o s_sp_playlist) : x \in PlaylistNames}
        \cup {Str(t) : t \in OtherTexts}

\* heuristicInterpret(command)
Heuristic ==
    /\ result = <<>>
    /\ result' = <<heuristicInterpret(arg)>>
    /\ UNCHANGED <<App, arg, server>>

InitHeuristic == ServerStarts /\ App = Mounted /\ arg \in HeuristicInputs /\ result = <<>>

SpecHeuristic == InitHeuristic /\ [][Heuristic]_vars

(***************************************************************************)
(* Two requests in flight at once: each is suspended at its awaits while   *)
(* the other runs.  The inputs are fewer than for one request.             *)
(***************************************************************************)
InFlight == {1, 2}


InitConc ==
    /\ App = Mounted
    /\ build \in {"App.jsx", "part_000"}
    /\ genAI = (build = "App.jsx")
    /\ accessToken = NoToken
    /\ pc = [r \in InFlight |-> "idle"]
    /\ command = [r \in InFlight |-> Undefined]
    /\ interpretation = [r \in InFlight |-> Undefined]
    /\ headers = [r \in InFlight |-> Undefined]
    /\ trace = [r \in InFlight |-> <<>>]
    /\ response = [r \in InFlight |-> <<>>]
    /\ arg = Undefined
    /\ result = <<>>

\* the call at which request r is suspended (lines 246, 250; the awaits of
\* getActionFromGemini and executeSpotifyAction) settles, fulfilled or rejected
Returns(r) ==
    \/ \E reply \in {NetworkError, Return(<<"{pause}">>), Return(<<"{artist}">>),
                     Return(<<"{playlist}">>)} :
          ModelReturns(r, reply)
    \/ \E reply \in {StatusError, Return(<<Item>>)} : SearchReturns(r, reply)
    \/ \E reply \in {Return(<<>>), Return(<<[uri |-> "spotify:track:a"]>>)} :
          TopTracksReturns(r, reply)
    \/ \E reply \in {Return(<<>>),
                     Return(<<[name |-> n_ROCK, uri |-> "spotify:playlist:2"]>>)} :
          PlaylistsReturns(r, reply)
    \/ \E reply \in {NetworkError, Return(<<>>)} : PlaybackReturns(r, reply)

NextConc ==
    \/ \E token \in Tokens : Callback(token)
    \/ \E r \in DOMAIN pc :
          \E cmd \in {Str(<<>>), Str(cmd_pause), Str(cmd_artist), Str(cmd_playlist)} :
              Command(r, cmd)
    \/ \E r \in DOMAIN pc : Returns(r)

SpecConc == InitConc /\ [][NextConc]_vars

NextLive ==
    \/ \E token \in Tokens : Callback(token)
    \/ \E r \in DOMAIN pc :
          \E cmd \in {Str(<<>>), Str(cmd_pause), Str(cmd_skip)} : Command(r, cmd)
    \/ \E r \in DOMAIN pc : Returns(r)

\* one request at a time when every upstream call eventually settles: the
\* event loop resumes a suspended handler once its promise has settled
SpecLive == Init /\ [][NextLive]_vars /\ \A r \in Requests : WF_vars(Returns(r))


(***************************************************************************)
(* One request at a time, with commands whose title, artist or playlist    *)
(* name is longer than the sanitizer's caps.                               *)
(***************************************************************************)
\* "play X", "play top songs by X" and "play my X playlist", X one
\* character longer than the cap on its parameter
LongCommands ==
    {Str(s_play_sp \o [i \in 1..(QueryCap + 1) |-> "x"]),
     Str(s_play_sp \o s_top_songs_by \o <<" ">> \o [i \in 1..(NameCap + 1) |-> "x"]),
     Str(s_play_sp \o s_my_sp \o [i \in 1..(NameCap + 1) |-> "x"] \o s_sp_playlist)}

NextLong ==
    \/ \E token \in Tokens : Callback(token)
    \/ \E r \in DOMAIN pc : \E cmd \in LongCommands : Command(r, cmd)
    \/ \E r \in DOMAIN pc :
          \E reply \in {QuotaError, Return(<<"{longsearch}">>)} : ModelReturns(r, reply)
    \/ \E r \in DOMAIN pc :
          \E reply \in {StatusError, Return(<<Item>>)} : SearchReturns(r, reply)
    \/ \E r \in DOMAIN pc :
          \E reply \in {Return(<<>>), Return(<<[uri |-> "spotify:track:a"]>>)} :
              TopTracksReturns(r, reply)
    \/ \E r \in DOMAIN pc :
          \E reply \in {Return(<<>>),
                        Return(<<[name |-> n_ROCK, uri |-> "spotify:playlist:2"]>>)} :
              PlaylistsReturns(r, reply)
    \/ \E r \in DOMAIN pc :
          \E reply \in {NetworkError, Return(<<>>)} : PlaybackReturns(r, reply)

\* the server of App.jsx, with and without a Gemini client
InitLong == Init /\ build = "App.jsx"

SpecLong == InitLong /\ [][NextLong]_vars

(***************************************************************************)
(* The App component (App.jsx:6-95): the command field, the status         *)
(* message, isLoading, and the invocations of handleCommandSubmit that are *)
(* suspended at an await.  React applies the state updates of a handler    *)
(* step before the next event is delivered, so a step and its updates are  *)
(* one action.                                                             *)
(***************************************************************************)
\* the input and the button are never disabled
NeverDisabled == FALSE

\* lines 76-77: disabled={isLoading} on the input and on the submit button
Disabled == App.isLoading

\* line 73: onChange={(e) => setCommand(e.target.value)}
onChange(value) ==
    /\ ~Disabled
    /\ App' = [App EXCEPT !.command = value]
    /\ UNCHANGED <<arg, result, server>>

\* lines 19-38: the form is submitted; the handler runs up to await fetch
handleCommandSubmit ==
    /\ ~Disabled
    /\ App' = IF App.command = <<>>
              THEN [App EXCEPT !.message = <<"Please enter a command.">>]
              ELSE [App EXCEPT !.isLoading = TRUE,
                               !.message = <<"Sending command: ", App.command>>,
                               !.handlers = Append(@, [at |-> "fetch", command |-> App.command,
                                                       response |-> <<>>])]
    /\ UNCHANGED <<arg, result, server>>

\* lines 48-53: the message of the step, then the finally block; the
\* handler at index h ends
Finally(h, message) ==
    App' = [App EXCEPT !.message = message, !.isLoading = FALSE, !.command = <<>>,
                       !.handlers = SubSeq(@, 1, h - 1) \o SubSeq(@, h + 1, Len(@))]

\* lines 29-36: fetch settles; a rejection lands in the catch (45-47)
FetchSettles(h, reply) ==
    /\ h \in DOMAIN App.handlers
    /\ App.handlers[h].at = "fetch"
    /\ IF reply.ok
       THEN App' = [App EXCEPT !.handlers[h].at = "json", !.handlers[h].response = <<reply.val>>]
       ELSE Finally(h, <<"Error connecting to the server. Is it running?">>)
    /\ UNCHANGED <<arg, result, server>>

\* line 44: data.details?.error?.message || data.error || 'An unknown error occurred.'
errorDetails(data) ==
    IF /\ "details" \in DOMAIN data
       /\ "error" \in DOMAIN data.details
       /\ "message" \in DOMAIN data.details.error
       /\ data.details.error.message # ""
    THEN data.details.error.message
    ELSE IF "error" \in DOMAIN data /\ data.error # "" THEN data.error
    ELSE "An unknown error occurred."

\* lines 38-47: response.json() settles (it rejects for a body that is not
\* JSON), then the message is chosen
JsonSettles(h) ==
    /\ h \in DOMAIN App.handlers
    /\ App.handlers[h].at = "json"
    /\ LET res == App.handlers[h].response[1]
           data == res.body
       IN  IF "text" \in DOMAIN data
           THEN Finally(h, <<"Error connecting to the server. Is it running?">>)
           ELSE IF res.status \in 200..299 /\ "success" \in DOMAIN data /\ data.success
           THEN Finally(h, <<"Successfully executed: ", App.handlers[h].command>>)
           ELSE Finally(h, <<"Error: ", errorDetails(data)>>)
    /\ UNCHANGED <<arg, result, server>>

InitApp == ServerStarts /\ App = Mounted /\ arg = Undefined /\ result = <<>>

\* typing leaves the field empty, blank or holding a command; fetch is
\* rejected or resolves with one of the handler's responses or with a body
\* of text that is not JSON
NextApp ==
    \/ \E value \in {<<>>, <<" ">>} \cup {c.v : c \in TextCommands} : onChange(value)
    \/ handleCommandSubmit
    \/ \E h \in DOMAIN App.handlers :
          \E reply \in {NetworkError}
                           \cup {Return(x) : x \in {Respond200, Respond400, Respond401,
                                                    Respond500(QuotaError.message),
                                                    Respond500(StatusError.message),
                                                    Status(502, [text |-> "<html>"])}} :
              FetchSettles(h, reply)
    \/ \E h \in DOMAIN App.handlers : JsonSettles(h)

SpecApp == InitApp /\ [][NextApp]_vars

(***************************************************************************)
(* The claims.                                                             *)
(***************************************************************************)
\* the indexes in request r's trace of the events of one kind
Events(r, kind) == {i \in DOMAIN trace[r] : trace[r][i].ev = kind}

\* the indexes of the playback mutations PUT /me/player/play
PlayCalls(r) ==
    {i \in Events(r, "axios") : trace[r][i].method = "PUT" /\ trace[r][i].url = PlayUrl}

\* the action of request r's interpretation
ActionOf(r) == Get(interpretation[r], "action")

\* request r was answered 500 with these details
Failed(r, template, args) ==
    /\ pc[r] = "done"
    /\ response[r] = <<Respond500([template |-> template, args |-> args])>>

\* C1: whenever executeSpotifyAction is invoked, its action is one of the
\* seven allowed actions, whatever the model returned.
C1_OnlyAllowedActionsReachExecutor ==
    \A r \in DOMAIN trace : \A i \in Events(r, "executeSpotifyAction") :
        Has(AllowedActions, Get(trace[r][i].interpretation, "action"))

\* C2: a request whose command is empty or missing is answered 400, and
\* neither the interpreter nor the executor is invoked for it: its trace
\* stays empty.
C2_EmptyCommandIs400 ==
    \A r \in DOMAIN pc :
        (pc[r] # "idle" /\ command[r] \in FalsyCommands)
            => /\ pc[r] = "done"
               /\ response[r] = <<Respond400>>
               /\ trace[r] = <<>>

C2_Witness ==
    \E r \in DOMAIN pc :
        /\ pc[r] = "done"
        /\ command[r] = Str(<<>>)
        /\ accessToken = NoToken
        /\ response[r] = <<Respond400>>

\* C3: a request with a non-empty command that arrives while accessToken is
\* empty is answered 401, and no model call, heuristic interpretation or
\* media-API call is made for it.  (accessToken is never set back to the
\* empty string, so while it is empty every request so far arrived without
\* a credential.)
C3_NoTokenIs401 ==
    \A r \in DOMAIN pc :
        (accessToken = NoToken /\ pc[r] # "idle" /\ command[r] \notin FalsyCommands)
            => /\ pc[r] = "done"
               /\ response[r] = <<Respond401>>
               /\ trace[r] = <<>>

C3_Witness ==
    \E r \in DOMAIN pc :
        /\ pc[r] = "done"
        /\ command[r] = Str(cmd_pause)
        /\ accessToken = NoToken
        /\ response[r] = <<Respond401>>

\* the replies to request r's executor, as indexes in its trace
ExecutorReplies(r) ==
    {i \in Events(r, "reply") : \E j \in Events(r, "executeSpotifyAction") : j < i}

\* C4: the handler responds success only if every remote call of the
\* action's sequence succeeded, the final playback mutation included; a
\* failed step of the executor is answered {success: false, error, details}
\* with that failure's message as details; no success after a failed step.
C4_SuccessOnlyAfterEveryStep ==
    \A r \in DOMAIN pc :
        /\ response[r] = <<Respond200>>
            => /\ pc[r] = "done"
               /\ Events(r, "executeSpotifyAction") # {}
               /\ \A i \in ExecutorReplies(r) : trace[r][i].reply.ok
               /\ \A i \in Events(r, "axios") : i + 1 \in Events(r, "reply")
               /\ \E i \in Events(r, "axios") :
                     /\ trace[r][i].url \in PlayerUrls
                     /\ i + 1 = Len(trace[r])
        /\ \A i \in ExecutorReplies(r) :
              ~trace[r][i].reply.ok
                  => /\ pc[r] = "done"
                     /\ response[r] = <<Respond500(trace[r][i].reply.message)>>
        /\ (pc[r] = "done" /\ Events(r, "executeSpotifyAction") # {})
            => \/ response[r] = <<Respond200>>
               \/ /\ Len(response[r]) = 1
                  /\ response[r][1].status = 500
                  /\ response[r][1].body.success = FALSE
                  /\ response[r][1].body.error = "Failed to process command."
                  /\ response[r][1].body.details.template # ""

\* the search succeeded and the playback mutation after it failed
C4_Witness ==
    \E r \in DOMAIN pc :
        /\ Len(trace[r]) >= 4
        /\ LET n == Len(trace[r])
           IN  /\ trace[r][n] = EvReply(NetworkError)
               /\ trace[r][n - 1].ev = "axios"
               /\ trace[r][n - 1].url = PlayUrl
               /\ trace[r][n - 2] = EvReply(Return(<<Item>>))
        /\ response[r] = <<Respond500(NetworkError.message)>>

\* the model call of request r settled with this reply
ModelReplied(r, reply) ==
    /\ Len(trace[r]) >= 2
    /\ trace[r][1].ev = "model"
    /\ trace[r][2] = EvReply(reply)

\* C5: when the model call raises an error, getActionFromGemini(text)
\* returns exactly heuristicInterpret(text), and the error does not reach
\* the /command handler (which goes on to the executor).
C5_ModelErrorFallsBack ==
    \A r \in DOMAIN pc : \A reply \in {NetworkError, QuotaError} :
        (ModelReplied(r, reply) /\ IsString(command[r]))
            => /\ interpretation[r] = heuristicInterpret(command[r]).val
               /\ Events(r, "executeSpotifyAction") # {}

\* a record {action, parameters} with a string action and an object
IsStructuredAction(x) ==
    /\ x.t = "object"
    /\ DOMAIN x.v = {"action", "parameters"}
    /\ x.v.action.t = "string"
    /\ x.v.parameters.t = "object"

\* C6: getActionFromGemini (App.jsx) never raises for a truthy command,
\* a string or not: every request that passed the guards and is past the
\* interpreter has a StructuredAction and reached the executor.
C6_InterpreterNeverRaises ==
    \A r \in DOMAIN pc :
        (/\ build = "App.jsx"
         /\ pc[r] \notin {"idle", "model"}
         /\ response[r] \notin {<<Respond400>>, <<Respond401>>})
            => /\ IsStructuredAction(interpretation[r])
               /\ Events(r, "executeSpotifyAction") # {}

\* the reply is well-formed JSON whose action is truthy and not allowed
DisallowedAction(reply) ==
    /\ reply.ok
    /\ JSONparse(reply.val).ok
    /\ Truthy(Get(JSONparse(reply.val).val, "action"))
    /\ ~Has(AllowedActions, Get(JSONparse(reply.val).val, "action"))

\* C7 as stated: when the model returns well-formed JSON whose action is
\* truthy but not allowed, the interpretation equals heuristicInterpret(text).
C7_DisallowedFallsBackToHeuristic ==
    \A r \in DOMAIN pc : \A reply \in ModelReplies :
        (/\ build = "App.jsx"
         /\ ModelReplied(r, reply)
         /\ DisallowedAction(reply)
         /\ IsString(command[r]))
            => interpretation[r] = heuristicInterpret(command[r]).val

\* C7 amended: in App.jsx, when the model returns well-formed JSON whose
\* action is truthy but not allowed, the interpretation is the sanitizer's
\* default {action: play, parameters: {}}, and heuristicInterpret is not
\* called.
C7_DisallowedBecomesPlay ==
    \A r \in DOMAIN pc : \A reply \in ModelReplies :
        (build = "App.jsx" /\ ModelReplied(r, reply) /\ DisallowedAction(reply))
            => /\ interpretation[r] = Action(s_play, <<>>)
               /\ Events(r, "heuristicInterpret") = {}
               /\ Events(r, "sanitizeInterpretation") # {}

C7_Witness ==
    \E r \in DOMAIN pc :
        /\ build = "App.jsx"
        /\ command[r] = Str(cmd_pause)
        /\ ModelReplied(r, Return(<<"{shuffle}">>))
        /\ interpretation[r] = Action(s_play, <<>>)
        /\ heuristicInterpret(command[r]).val = Action(s_pause, <<>>)

\* request r's call at index i went to url and the reply to it has arrived
Answered(r, i, url) ==
    /\ i \in Events(r, "axios")
    /\ trace[r][i].url = url
    /\ i + 1 \in Events(r, "reply")

\* C8: for search_and_play, when the catalog search returns zero items the
\* executor fails with the not-found error that names the query and the
\* type sent, and no PUT /me/player/play is issued for the command.
C8_EmptySearchIsNotFound ==
    \A r \in DOMAIN pc : \A i \in DOMAIN trace[r] :
        (/\ ActionOf(r) = Str(s_search_and_play)
         /\ Answered(r, i, "/search")
         /\ trace[r][i + 1].reply = Return(<<>>))
            => /\ Failed(r, "No ${type} found for query: ${query}",
                         <<trace[r][i].data.type, trace[r][i].data.q>>)
               /\ PlayCalls(r) = {}

C8_Witness ==
    \E r \in DOMAIN pc :
        /\ ActionOf(r) = Str(s_search_and_play)
        /\ Answered(r, Len(trace[r]) - 1, "/search")
        /\ trace[r][Len(trace[r])].reply = Return(<<>>)
        /\ Failed(r, "No ${type} found for query: ${query}", <<Str(s_track), Str(n_jazz)>>)

\* name occurs in the playlist's name, letter case aside
NameMatches(playlist, name) ==
    \E k \in 1..(Len(playlist.name) + 1) :
        StartsAt(toLowerCase(playlist.name), k, toLowerCase(name))

\* C9: for play_my_playlist with a string as playlistName, the playlist
\* whose context URI is sent in the
\* playback mutation is the earliest one of the listing whose name contains
\* playlistName case-insensitively; when none matches, the executor fails
\* with not-found and issues no playback mutation.
C9_FirstMatchingPlaylist ==
    \A r \in DOMAIN pc : \A i \in DOMAIN trace[r] :
        (/\ ActionOf(r) = Str(s_play_my_playlist)
         /\ IsString(Get(Get(interpretation[r], "parameters"), "playlistName"))
         /\ Answered(r, i, "/me/playlists")
         /\ trace[r][i + 1].reply.ok)
            => LET playlistName == Get(Get(interpretation[r], "parameters"), "playlistName")
                   listing == trace[r][i + 1].reply.val
                   matching == {k \in 1..Len(listing) : NameMatches(listing[k], playlistName.v)}
               IN  IF matching = {}
                   THEN /\ Failed(r, "Playlist '${playlistName}' not found in your library.",
                                  <<playlistName>>)
                        /\ PlayCalls(r) = {}
                   ELSE \E k \in matching :
                           /\ \A j \in matching : k <= j
                           /\ PlayCalls(r) = {i + 2}
                           /\ trace[r][i + 2].data = [context_uri |-> listing[k].uri]

\* two listed playlists match and the first one is played
C9_Witness ==
    \E r \in DOMAIN pc : \E i \in DOMAIN trace[r] :
        /\ ActionOf(r) = Str(s_play_my_playlist)
        /\ IsString(Get(Get(interpretation[r], "parameters"), "playlistName"))
        /\ Answered(r, i, "/me/playlists")
        /\ trace[r][i + 1].reply.ok
        /\ LET listing == trace[r][i + 1].reply.val
               playlistName == Get(Get(interpretation[r], "parameters"), "playlistName")
           IN  /\ Len(listing) = 2
               /\ listing[1] # listing[2]
               /\ NameMatches(listing[1], playlistName.v)
               /\ NameMatches(listing[2], playlistName.v)
               /\ PlayCalls(r) = {i + 2}
               /\ trace[r][i + 2].data = [context_uri |-> listing[1].uri]

\* the urls of request r's remote calls, in order
CallUrls(r) ==
    LET calls == SelectSeq(trace[r], LAMBDA e : e.ev = "axios")
    IN  [k \in 1..Len(calls) |-> calls[k].url]

\* C10: for play_artist_top_tracks the remote calls are the artist search,
\* then the top-tracks fetch, then the playback mutation; the fetch comes
\* only after a search with a result (and asks for that artist), the
\* mutation only after a fetch with a track, its uris being all returned
\* tracks in the returned order; zero tracks fails with the no-tracks error
\* and no mutation.
C10_ArtistTopTracksSequence ==
    \A r \in DOMAIN pc :
        ActionOf(r) = Str(s_play_artist_top_tracks)
            => /\ CallUrls(r) \in {<<>>, <<"/search">>, <<"/search", TopTracksUrl>>,
                                   <<"/search", TopTracksUrl, PlayUrl>>}
               /\ \A i \in Events(r, "axios") :
                     /\ trace[r][i].url = "/search" => trace[r][i].data.type = Str(s_artist)
                     /\ trace[r][i].url = TopTracksUrl
                         => /\ Answered(r, i - 2, "/search")
                            /\ trace[r][i - 1].reply.ok
                            /\ Len(trace[r][i - 1].reply.val) >= 1
                            /\ trace[r][i].data.artistId = trace[r][i - 1].reply.val[1].id
                     /\ trace[r][i].url = PlayUrl
                         => /\ Answered(r, i - 2, TopTracksUrl)
                            /\ trace[r][i - 1].reply.ok
                            /\ Len(trace[r][i - 1].reply.val) >= 1
                            /\ trace[r][i].data =
                                  [uris |-> [k \in 1..Len(trace[r][i - 1].reply.val) |->
                                                trace[r][i - 1].reply.val[k].uri]]
                     /\ (Answered(r, i, TopTracksUrl) /\ trace[r][i + 1].reply = Return(<<>>))
                         => /\ Failed(r, "No top tracks found for ${artistName}",
                                      <<Get(Get(interpretation[r], "parameters"), "artistName")>>)
                            /\ PlayCalls(r) = {}

\* two different top tracks were returned and played
C10_Witness ==
    \E r \in DOMAIN pc :
        /\ ActionOf(r) = Str(s_play_artist_top_tracks)
        /\ CallUrls(r) = <<"/search", TopTracksUrl, PlayUrl>>
        /\ \E i \in PlayCalls(r) :
              /\ Len(trace[r][i].data.uris) = 2
              /\ trace[r][i].data.uris[1] # trace[r][i].data.uris[2]
        /\ response[r] = <<Respond200>>

\* C11: within one command every remote media-API step is attempted at most
\* once (no url is called twice), and once a step fails nothing more is
\* called for that command: the failed reply is the last event of its trace
\* and the request is answered 500 with that failure's message.
C11_NoRetryAbortOnFailure ==
    \A r \in DOMAIN pc :
        /\ \A i, j \in Events(r, "axios") : trace[r][i].url = trace[r][j].url => i = j
        /\ \A i \in ExecutorReplies(r) :
              ~trace[r][i].reply.ok
                  => /\ i = Len(trace[r])
                     /\ pc[r] = "done"
                     /\ response[r] = <<Respond500(trace[r][i].reply.message)>>

\* the artist search succeeded, the top-tracks fetch failed with a non-2xx
\* status, and nothing was called after it
C11_Witness ==
    \E r \in DOMAIN pc :
        /\ CallUrls(r) = <<"/search", TopTracksUrl>>
        /\ trace[r][Len(trace[r])] = EvReply(StatusError)
        /\ response[r] = <<Respond500(StatusError.message)>>

\* C12: for every input object, whatever its action and its parameters
\* (missing, null, not an object), sanitizeInterpretation returns a record
\* {action, parameters} whose action is one of the seven allowed actions;
\* an input action outside the set yields {action: play, parameters: {}}.
C12_SanitizerReturnsAllowedAction ==
    Len(result) >= 1
        => /\ IsStructuredAction(result[1])
           /\ Has(AllowedActions, Get(result[1], "action"))
           /\ ~Has(AllowedActions, Get(arg, "action")) => result[1] = Action(s_play, <<>>)

\* a disallowed action with null parameters became the default
C12_Witness ==
    /\ arg = Obj([action |-> Str(s_shuffle), parameters |-> Null])
    /\ result = <<Action(s_play, <<>>)>>

\* C13: sanitizeInterpretation is idempotent: applied to its own result it
\* returns that result again, for every input object, the ones with the
\* alias keys artist and name, over-long strings and values that are not
\* strings included.
C13_SanitizerIdempotent ==
    Len(result) = 2 => result[2] = result[1]

\* an over-long name under the alias key was cut to the cap and moved to
\* playlistName, and the second application changed nothing
C13_Witness ==
    /\ arg = Obj([action |-> Str(s_play_my_playlist),
                  parameters |-> Obj([name |-> Str(LongName)])])
    /\ Len(result) = 2
    /\ result[1] = Action(s_play_my_playlist, [playlistName |-> Str(SubSeq(LongName, 1, NameCap))])
    /\ result[2] = result[1]

\* the length of a parameter of the interpretation x (0 when it is absent)
ParameterLen(x, key) ==
    LET v == Get(Get(x, "parameters"), key)
    IN  IF IsString(v) THEN Len(v.v) ELSE 0

\* C14: every interpretation passed to executeSpotifyAction, from the
\* model's output or from the heuristic, has a query of at most 120
\* characters and an artistName and playlistName of at most 80, whatever
\* the length of the command.
C14_ParametersCappedAtExecutor ==
    \A r \in DOMAIN trace : \A i \in Events(r, "executeSpotifyAction") :
        /\ ParameterLen(trace[r][i].interpretation, "query") <= QueryCap
        /\ ParameterLen(trace[r][i].interpretation, "artistName") <= NameCap
        /\ ParameterLen(trace[r][i].interpretation, "playlistName") <= NameCap

\* C15: for the command "Pause the current song" with a credential set,
\* when the model returned the pause action, or (App.jsx) no model is
\* configured or the model call failed, the interpretation is pause, exactly one
\* media-API call is issued, PUT /me/player/pause, and when it succeeds the
\* handler responds success.
C15_PauseIssuesOneCall ==
    \A r \in DOMAIN pc :
        (/\ command[r] = Str(cmd_pause)
         /\ pc[r] \notin {"idle", "model"}
         /\ response[r] # <<Respond401>>
         /\ \/ build = "App.jsx" /\ ~genAI
            \/ build = "App.jsx" /\ (ModelReplied(r, NetworkError) \/ ModelReplied(r, QuotaError))
            \/ ModelReplied(r, Return(<<"{pause}">>)))
            => /\ interpretation[r] = Action(s_pause, <<>>)
               /\ CallUrls(r) = <<"/me/player/pause">>
               /\ \A i \in Events(r, "axios") :
                     /\ trace[r][i].method = "PUT"
                     /\ trace[r][i].data = <<>>
                     /\ trace[r][i].token \in Tokens
               /\ trace[r][Len(trace[r])] = EvReply(Return(<<>>))
                    => (pc[r] = "done" /\ response[r] = <<Respond200>>)

\* the model call failed, the heuristic said pause, the one call succeeded
C15_Witness ==
    \E r \in DOMAIN pc :
        /\ build = "App.jsx"
        /\ command[r] = Str(cmd_pause)
        /\ ModelReplied(r, QuotaError)
        /\ CallUrls(r) = <<"/me/player/pause">>
        /\ trace[r][Len(trace[r])] = EvReply(Return(<<>>))
        /\ response[r] = <<Respond200>>

\* C16 as stated: for every command "play my X playlist" with a non-empty
\* name X (several words, or a word holding stop, back, next or skip,
\* included) heuristicInterpret returns {action: play_my_playlist,
\* parameters: {playlistName: X}} with X trimmed.
C16_PlayMyPlaylistAnyName ==
    \A x \in PlaylistNames :
        (arg = Str(s_play_sp \o s_my_sp \o x \o s_sp_playlist) /\ result # <<>>)
            => result[1] = Return(Action(s_play_my_playlist, [playlistName |-> Str(trim(x))]))

\* C17: for every text that holds "pause" or "stop" in any letter case,
\* heuristicInterpret returns {action: pause, parameters: {}} whatever else
\* the text holds.
C17_PauseOrStopIsPause ==
    \A a \in TextsBefore, w \in PauseWords, b \in TextsAfter :
        (arg = Str(a \o w \o b) /\ result # <<>>)
            => result[1] = Return(Action(s_pause, <<>>))

\* "STOP" inside a play-my-playlist command that also says "next"
C17_Witness ==
    /\ arg = Str(<<"p", "l", "a", "y", " ", "m", "y", " ", "n", "o", "n">>
                 \o <<"S", "T", "O", "P">>
                 \o <<" ", "t", "h", "e", " ", "n", "e", "x", "t", " ", "s", "o", "n", "g">>)
    /\ result = <<Return(Action(s_pause, <<>>))>>

\* the lower-cased text c is matched by one of the rules 1 to 5
MatchedByRules1To5(c) ==
    HeuristicRules(c).v.action.v
        \in {s_pause, s_next, s_previous, s_play_my_playlist, s_play_artist_top_tracks}

\* C18 as stated: for a text that none of the rules 1 to 5 matches,
\* heuristicInterpret returns search_and_play only when the text starts
\* with "play "; a text that does not start with "play " (one where
\* "play " comes later, say) yields the default {action: play, parameters: {}}.
C18_SearchOnlyWhenTextStartsWithPlay ==
    (/\ arg \in HeuristicInputs
     /\ result # <<>>
     /\ ~MatchedByRules1To5(toLowerCase(arg.v))
     /\ ~StartsAt(toLowerCase(arg.v), 1, s_play_sp))
        => result[1] = Return(Action(s_play, <<>>))

\* C19: when the model's response is a valid action JSON object between a
\* leading json fence and a trailing fence, white space around them,
\* getActionFromGemini (App.jsx) returns the sanitized form of that object
\* ({action: next, parameters: {}} for the next action) and does not call
\* heuristicInterpret.
C19_FencedJsonIsParsed ==
    \A r \in DOMAIN pc : \A f \in FencedDocs :
        (build = "App.jsx" /\ ModelReplied(r, Return(Fenced(f))))
            => /\ interpretation[r] = sanitizeInterpretation(JsonDocs[f.doc])
               /\ f.doc = "{next}" => interpretation[r] = Action(s_next, <<>>)
               /\ Events(r, "heuristicInterpret") = {}
               /\ Events(r, "sanitizeInterpretation") # {}

\* the fenced playlist action with an upper-case tag, for a command the
\* heuristic reads as pause
C19_Witness ==
    \E r \in DOMAIN pc : \E f \in FencedDocs :
        /\ build = "App.jsx"
        /\ command[r] = Str(cmd_pause)
        /\ f.tag = <<"J", "S", "O", "N">>
        /\ ModelReplied(r, Return(Fenced(f)))
        /\ interpretation[r] = Action(s_play_my_playlist, [playlistName |-> Str(n_ROCK)])

\* all that the server holds about request r
Slot(r) == <<pc[r], command[r], interpretation[r], headers[r], trace[r], response[r]>>

\* what request r was given: its command, the token its executor read and
\* the upstream replies it received, in order
Given(r) ==
    <<command[r], headers[r], SelectSeq(trace[r], LAMBDA e : e.ev = "reply")>>

\* request r is in flight or answered, and was not turned away for want of
\* a credential when it arrived
Admitted(r) == pc[r] # "idle" /\ response[r] # <<Respond401>>

\* C20: handling a /command request never writes accessToken (a step that
\* changes accessToken changes no request); with two commands in flight,
\* interleaved at their awaits, a step changes one request at most, and
\* two requests given the same command, token and upstream replies have
\* the same interpretation, calls and response, whatever the other did.
C20_CommandsAreIndependent ==
    /\ [](\A r1, r2 \in DOMAIN pc :
            (Admitted(r1) /\ Admitted(r2) /\ Given(r1) = Given(r2)) => Slot(r1) = Slot(r2))
    /\ [][/\ accessToken' # accessToken => \A r \in DOMAIN pc : Slot(r)' = Slot(r)
          /\ \A r1, r2 \in DOMAIN pc :
                r1 # r2 => (Slot(r1)' = Slot(r1) \/ Slot(r2)' = Slot(r2))]_vars

\* two different commands, each past its model call and suspended at a
\* call of its executor, which read different tokens
C20_Witness ==
    \E r1, r2 \in DOMAIN pc :
        /\ pc[r1] = TopTracksUrl
        /\ pc[r2] \in PlayerUrls
        /\ command[r1] # command[r2]
        /\ headers[r1] \in Tokens
        /\ headers[r2] \in Tokens
        /\ headers[r1] # headers[r2]
        /\ Events(r1, "model") # {}
        /\ Events(r2, "model") # {}

\* request r is suspended at an upstream call
Suspended(r) == pc[r] \notin {"idle", "done"}

\* C21: a request is answered only by the step in which its pending
\* upstream call returns: while it is suspended it has no response, and
\* nothing but the return of its call (a reply event appended to its trace)
\* gives it one, so a call that never returns leaves it unanswered; when
\* every upstream call eventually returns, every suspended request is
\* eventually done with exactly one response.
C21_AnsweredOnceCallsReturn ==
    /\ [](\A r \in DOMAIN pc :
            /\ Suspended(r) => response[r] = <<>>
            /\ pc[r] = "done" => Len(response[r]) = 1)
    /\ [][\A r \in DOMAIN pc :
            Suspended(r) /\ Slot(r)' # Slot(r)
                => /\ Len(trace'[r]) > Len(trace[r])
                   /\ trace'[r][Len(trace[r]) + 1].ev = "reply"]_vars
    /\ \A r \in Requests : Suspended(r) ~> (pc[r] = "done" /\ Len(response[r]) = 1)

\* answered after the model call and three calls of the executor returned
C21_Witness ==
    \E r \in DOMAIN pc :
        /\ pc[r] = "done"
        /\ Len(response[r]) = 1
        /\ Events(r, "model") # {}
        /\ Cardinality(Events(r, "reply")) = 4
        /\ response[r] = <<Respond200>>

\* request r passed both guards of the handler
PassedGuards(r) ==
    pc[r] # "idle" /\ response[r] \notin {<<Respond400>>, <<Respond401>>}

\* C22: in App.jsx a command that passed the guards has exactly one model
\* call in its trace, its first event, when a Gemini client is configured
\* and none when it is not, whatever the model replied (an error or a
\* reply that is no action is followed by the heuristic, not by a second
\* call); and a command that arrives at a free slot and passes the guards
\* is sent to the model whatever the earlier command on that slot met.
C22_ModelCalledOncePerCommand ==
    /\ [](\A r \in DOMAIN pc :
            (build = "App.jsx" /\ PassedGuards(r))
                => /\ Events(r, "model") = (IF genAI THEN {1} ELSE {})
                   /\ \A i \in Events(r, "reply") :
                         (i = 2 /\ genAI) \/ trace[r][i - 1].ev = "axios")
    /\ [][\A r \in DOMAIN pc :
            (/\ build = "App.jsx"
             /\ genAI
             /\ pc[r] \in {"idle", "done"}
             /\ Slot(r)' # Slot(r)
             /\ Truthy(command'[r])
             /\ Truthy(accessToken))
                => /\ pc'[r] = "model"
                   /\ trace'[r] = <<EvModel(command'[r])>>]_vars

\* the model call failed, the heuristic answered and the command went on
\* to its playback call
C22_Witness ==
    \E r \in DOMAIN pc :
        /\ build = "App.jsx"
        /\ genAI
        /\ ModelReplied(r, QuotaError)
        /\ Events(r, "model") = {1}
        /\ Events(r, "heuristicInterpret") = {3}
        /\ Events(r, "axios") # {}

\* the parameter keys of each action's schema
SchemaKeys(a) ==
    CASE a = s_search_and_play -> {"query", "type"}
      [] a = s_play_artist_top_tracks -> {"artistName"}
      [] a = s_play_my_playlist -> {"playlistName"}
      [] OTHER -> {}

\* the object each application of the sanitizer was given
SanitizerInput(i) == IF i = 1 THEN arg ELSE result[i - 1]

\* C23: every record sanitizeInterpretation returns has exactly the
\* parameter keys of its action's schema (none for play, pause, next and
\* previous; query and type; artistName; playlistName), every parameter
\* value is a string, and the type of search_and_play is the given type
\* when that is track, artist or playlist and track for any other or
\* missing value.
C23_ParametersFollowSchema ==
    \A i \in DOMAIN result :
        LET given == Get(Get(SanitizerInput(i), "parameters"), "type")
            a == result[i].v.action.v
            p == result[i].v.parameters.v
        IN  /\ DOMAIN p = SchemaKeys(a)
            /\ \A k \in DOMAIN p : IsString(p[k])
            /\ a = s_search_and_play
                => /\ p.type.v \in AllowedTypes
                   /\ p.type = (IF IsString(given) /\ given.v \in AllowedTypes
                                THEN given ELSE Str(s_track))

\* a number as query and the type album became the string 42 and track
C23_Witness ==
    /\ arg = Obj([action |-> Str(s_search_and_play),
                  parameters |-> Obj([query |-> Num(42),
                                      type |-> Str(<<"a", "l", "b", "u", "m">>)])])
    /\ Len(result) >= 1
    /\ result[1] = Action(s_search_and_play, [query |-> Str(s_42), type |-> Str(s_track)])

\* C24: every media-API call of one command carries the same bearer token,
\* the value accessToken had in the step in which executeSpotifyAction
\* started: that value is kept from then on, through every later step of
\* the command and every /callback that overwrites accessToken.
C24_OneTokenPerCommand ==
    /\ [](\A r \in DOMAIN pc : \A i \in Events(r, "axios") : trace[r][i].token = headers[r])
    /\ [][\A r \in DOMAIN pc :
            /\ (Events(r, "executeSpotifyAction") = {}
                    /\ Events(r, "executeSpotifyAction")' # {})
                => headers'[r] = accessToken
            /\ (Events(r, "executeSpotifyAction") # {} /\ Suspended(r))
                => headers'[r] = headers[r]]_vars

\* three calls with the token the executor read, made around a /callback
\* that replaced accessToken
C24_Witness ==
    \E r \in DOMAIN pc :
        /\ Cardinality(Events(r, "axios")) = 3
        /\ headers[r] \in Tokens
        /\ accessToken \in Tokens
        /\ accessToken # headers[r]
        /\ \A i \in Events(r, "axios") : trace[r][i].token = headers[r]

\* the status of request r's response is one of these
Responded(r, codes) == Len(response[r]) = 1 /\ response[r][1].status \in codes

\* C25: a request never has more than one response and has exactly one
\* when its handler has finished; the arrival of a request decides in this
\* order: an empty or missing command is answered 400 whether or not a
\* credential exists, otherwise a missing credential is answered 401,
\* otherwise interpretation starts; a request answered 400 or 401 was
\* never interpreted, and 200 and 500 go only to requests that had a
\* command and a credential and were interpreted.
C25_OneResponseGuardsInOrder ==
    /\ [](\A r \in DOMAIN pc :
            /\ Len(response[r]) <= 1
            /\ pc[r] = "done" => Responded(r, {200, 400, 401, 500})
            /\ Responded(r, {400, 401}) => trace[r] = <<>>
            /\ Responded(r, {200, 500}) => (Truthy(command[r]) /\ trace[r] # <<>>)
            /\ Suspended(r) => (Truthy(command[r]) /\ trace[r] # <<>>))
    /\ [][\A r \in DOMAIN pc :
            (pc[r] \in {"idle", "done"} /\ Slot(r)' # Slot(r))
                => IF ~Truthy(command'[r]) THEN response'[r] = <<Respond400>>
                   ELSE IF ~Truthy(accessToken) THEN response'[r] = <<Respond401>>
                   ELSE /\ ~Responded(r, {400, 401})'
                        /\ trace'[r] # <<>>]_vars

\* no command at all and no credential: 400
C25_Witness ==
    \E r \in DOMAIN pc :
        /\ pc[r] = "done"
        /\ command[r] = Undefined
        /\ accessToken = NoToken
        /\ response[r] = <<Respond400>>
        /\ trace[r] = <<>>

\* C26: for play_my_playlist with the empty string as playlistName, once
\* the listing has arrived the executor plays the first listed playlist
\* whenever the listing is not empty (the empty string occurs in every
\* name) and reports not-found only when the listing is empty.
C26_EmptyNamePlaysFirstPlaylist ==
    \A r \in DOMAIN pc : \A i \in DOMAIN trace[r] :
        (/\ ActionOf(r) = Str(s_play_my_playlist)
         /\ Get(Get(interpretation[r], "parameters"), "playlistName") = Str(<<>>)
         /\ Answered(r, i, "/me/playlists")
         /\ trace[r][i + 1].reply.ok)
            => LET listing == trace[r][i + 1].reply.val
               IN  IF Len(listing) = 0
                   THEN /\ Failed(r, "Playlist '${playlistName}' not found in your library.",
                                  <<Str(<<>>)>>)
                        /\ PlayCalls(r) = {}
                   ELSE /\ PlayCalls(r) = {i + 2}
                        /\ trace[r][i + 2].data = [context_uri |-> listing[1].uri]
                        /\ ~Failed(r, "Playlist '${playlistName}' not found in your library.",
                                   <<Str(<<>>)>>)

\* the model named no playlist, two were listed and the first was sent
C26_Witness ==
    \E r \in DOMAIN pc : \E i \in DOMAIN trace[r] :
        /\ ModelReplied(r, Return(<<"{unnamed}">>))
        /\ interpretation[r] = Action(s_play_my_playlist, [playlistName |-> Str(<<>>)])
        /\ Answered(r, i, "/me/playlists")
        /\ trace[r][i + 1].reply.ok
        /\ Len(trace[r][i + 1].reply.val) = 2
        /\ trace[r][i + 2].data = [context_uri |-> trace[r][i + 1].reply.val[1].uri]

\* C27: in the App component isLoading is true exactly while a submit
\* handler is suspended at its request, and at most one is; while the
\* field is empty no step starts a request or sets isLoading; a step that
\* starts a request sets isLoading and sends the field's text; and the
\* step in which a handler ends, whatever the outcome, leaves isLoading
\* false and the field empty.
C27_LoadingWhileRequestInFlight ==
    /\ [](/\ App.isLoading <=> App.handlers # <<>>
          /\ Len(App.handlers) <= 1)
    /\ [][/\ App.command = <<>>
              => (App'.handlers = App.handlers /\ ~App'.isLoading)
          /\ Len(App'.handlers) > Len(App.handlers)
              => /\ App'.isLoading
                 /\ App'.handlers[Len(App'.handlers)].command = App.command
                 /\ App.command # <<>>
          /\ Len(App'.handlers) < Len(App.handlers)
              => (~App'.isLoading /\ App'.command = <<>>)]_vars

\* the server answered 401: the message shows its error, the field is
\* empty again and nothing is loading
C27_Witness ==
    /\ App.message = <<"Error: ", Respond401.body.error>>
    /\ ~App.isLoading
    /\ App.command = <<>>
    /\ App.handlers = <<>>

====
